---- MODULE Spec2Model ----
(***************************************************************************)
(* Model of the LinkedIn post pipeline of social_media_poster.             *)
(*                                                                         *)
(* Two programs share the repository: agent_flow.py (command line flow,    *)
(* schedule_linkedin_posts) and agent.py with scheduler.py (background     *)
(* poster, schedule_posts).  A run is one of the two; `prog` says which.   *)
(*                                                                         *)
(* Spec follows the two schedulers.  RemoteSpec follows agent_flow.py     *)
(* from the remote model calls to the scheduled posts, PublishSpec from    *)
(* the generated posts to their publication.                               *)
(*                                                                         *)
(* Time is counted in seconds since 2025-01-01 00:00:00 local standard     *)
(* time.  The local zone has the daylight-saving rule of America/New_York  *)
(* for 2025 (clocks forward on 9 March 02:00, back on 2 November 02:00).   *)
(***************************************************************************)
EXTENDS Integers, Sequences, FiniteSets, TLC

VARIABLES prog, now, start_time, posts, agent_posts, call, pub, api, file,
    loaded, store, run, retry, auth, poster, glob, dir, check, poll,
    accepted

vars == <<prog, now, start_time, posts, agent_posts, call, pub, api, file,
         loaded, store, run, retry, auth, poster, glob, dir, check, poll,
         accepted>>

----------------------------------------------------------------------------
(* Bounds of the model *)

\* largest batch handed to a scheduler
MaxPosts == 5
\* largest value of the days argument that is tried
MaxDays == 3
\* largest number of posts the pipeline generates
PipelinePosts == 2

----------------------------------------------------------------------------
(* Python arithmetic *)

Min(a, b) == IF a <= b THEN a ELSE b

\* a // b of Python for b > 0 (floor, also for negative a)
PyFloorDiv(a, b) == IF a >= 0 THEN a \div b ELSE -((-a + b - 1) \div b)

\* a % b of Python for b # 0: the result has the sign of b
PyMod(a, b) == IF b > 0 THEN a - b * PyFloorDiv(a, b)
                         ELSE -((-a) - (-b) * PyFloorDiv(-a, -b))

Range(s) == {s[k] : k \in DOMAIN s}

None == <<>>
Some(x) == <<x>>

----------------------------------------------------------------------------
(* The civil calendar and the local zone, as time.localtime, time.mktime   *)
(* and time.strftime of the C library compute them.                        *)

DaySeconds == 24 * 60 * 60
HourSeconds == 60 * 60
EpochYear == 2025

IsLeap(y) == (y % 4 = 0 /\ y % 100 # 0) \/ y % 400 = 0

DaysInMonth(y, m) ==
    IF m = 2 THEN (IF IsLeap(y) THEN 29 ELSE 28)
    ELSE IF m \in {4, 6, 9, 11} THEN 30 ELSE 31

\* the date that lies d days after the first of month m of year y (d >= 0)
RECURSIVE CivilFrom(_, _, _)
CivilFrom(y, m, d) ==
    IF d < DaysInMonth(y, m)
    THEN [year |-> y, mon |-> m, mday |-> d + 1]
    ELSE CivilFrom(IF m = 12 THEN y + 1 ELSE y,
                   IF m = 12 THEN 1 ELSE m + 1,
                   d - DaysInMonth(y, m))

RECURSIVE DaysBefore(_, _)
\* days from 1 January of EpochYear to the first of month m of year y
DaysBefore(y, m) ==
    IF y = EpochYear /\ m = 1 THEN 0
    ELSE IF m = 1 THEN DaysBefore(y - 1, 12) + 31
    ELSE DaysBefore(y, m - 1) + DaysInMonth(y, m - 1)

\* the years the clock of the model can show, and their calendar
Years == {EpochYear, EpochYear + 1}
Calendar == [d \in 0 .. DaysBefore(EpochYear + 2, 1) - 1 |->
                CivilFrom(EpochYear, 1, d)]
MonthStart == [y \in Years |-> [m \in 1 .. 12 |-> DaysBefore(y, m)]]

\* day number (0 = 1 January of EpochYear) to calendar date
CivilFromDays(d) == Calendar[d]

\* calendar date to day number
DaysFromCivil(y, m, d) == MonthStart[y][m] + (d - 1)

\* daylight saving is in force from DstStart (inclusive) to DstEnd (exclusive)
DstStart == DaysFromCivil(2025, 3, 9) * DaySeconds + 2 * HourSeconds
DstEnd == DaysFromCivil(2025, 11, 2) * DaySeconds + 1 * HourSeconds

IsDst(t) == IF DstStart <= t /\ t < DstEnd THEN 1 ELSE 0

\* local wall-clock seconds at instant t
WallClock(t) == t + IsDst(t) * HourSeconds

\* broken-down form of wall-clock seconds w
BrokenDown(w) ==
    LET date == CivilFromDays(w \div DaySeconds)
        secs == w % DaySeconds
    IN  [tm_year |-> date.year, tm_mon |-> date.mon, tm_mday |-> date.mday,
         tm_hour |-> secs \div HourSeconds,
         tm_min |-> (secs % HourSeconds) \div 60,
         tm_sec |-> secs % 60]

\* wall-clock seconds of a broken-down time
WallSeconds(tm) ==
    DaysFromCivil(tm.tm_year, tm.tm_mon, tm.tm_mday) * DaySeconds
        + tm.tm_hour * HourSeconds + tm.tm_min * 60 + tm.tm_sec

\* time.localtime(t): struct_time with tm_isdst
LocalTime(t) == [tm_isdst |-> IsDst(t)] @@ BrokenDown(WallClock(t))

\* time.mktime(tm) with tm_isdst 0 or 1: the fields are read in the regime
\* tm_isdst names, also when that regime is not in force at that wall time
MkTime(tm) == WallSeconds(tm) - tm.tm_isdst * HourSeconds

\* time.strftime("%Y-%m-%d %H:%M:%S", tm): the text carries no tm_isdst
StrfTime(tm) ==
    [year |-> tm.tm_year, mon |-> tm.tm_mon, mday |-> tm.tm_mday,
     hour |-> tm.tm_hour, min |-> tm.tm_min, sec |-> tm.tm_sec]

\* the calendar day of a formatted time or of a datetime, as a day number
DateOf(s) == DaysFromCivil(s.year, s.mon, s.mday)

\* the instant a process may start at: one of the sampled times of day of
\* one of the sampled dates
ClockStep == 12 * HourSeconds
StartDates == {<<2025, 3, 8>>, <<2025, 11, 1>>, <<2025, 12, 31>>}
\* how long after its start a process is followed
Horizon == 1 * ClockStep
StartTimes ==
    {DaysFromCivil(d[1], d[2], d[3]) * DaySeconds + k * ClockStep :
        d \in StartDates, k \in 0 .. (DaySeconds \div ClockStep) - 1}

----------------------------------------------------------------------------
(* agent_flow.py *)

\* LinkedInPost(topic_title, content, generated_at, published = False) with
\* scheduled_for left at its default None; id is the object's identity
NewLinkedInPost(id, t) ==
    [id |-> id, topic_title |-> id, content |-> id,
     generated_at |-> StrfTime(LocalTime(t)),
     scheduled_for |-> None, published |-> FALSE]

business_hours == <<9, 12, 15, 17>>

\* variant: the day cycles with the position, i % days
DayOffsetCycling(i, days, n) == IF days = 0 THEN 0 ELSE PyMod(i, days)

\* variant: a day is filled with one post per slot hour before the next
DayOffsetFillFirst(i, days, n) == Min(i \div Len(business_hours), days - 1)

\* variant: every post gets a day of its own, days is not consulted
DayOffsetOnePerDay(i, days, n) == i

\* day_offset of the post at 0-indexed position i in a batch of n
DayOffset(i, days, n) == Min(PyFloorDiv(i * days, n), days - 1)

\* variant: every post gets the first business hour
TargetHourFirst(i) == business_hours[1]

\* variant: the position is counted from 1 when the hour is looked up
TargetHourOneBased(i) ==
    business_hours[((i + 1) % Len(business_hours)) + 1]

\* target_hour of the post at 0-indexed position i
TargetHour(i) == business_hours[(i % Len(business_hours)) + 1]

\* scheduled_time of the post at position i, for a call made at current_time
ScheduledTime(i, days, n, current_time) ==
    LET target_day == current_time + DayOffset(i, days, n) * DaySeconds
        target_struct == LocalTime(target_day)
    IN  MkTime([target_struct EXCEPT !.tm_hour = TargetHour(i),
                                     !.tm_min = 0, !.tm_sec = 0])

\* formatted_time, the text stored in post.scheduled_for
FormattedTime(i, days, n, current_time) ==
    StrfTime(LocalTime(ScheduledTime(i, days, n, current_time)))

\* the formatted_time of every position of a batch of n
FormattedTimes(n, days, current_time) ==
    [k \in 1 .. n |-> FormattedTime(k - 1, days, n, current_time)]

\* variant: the loop also marks the post as not yet published
AnnotatedPostsReset(ps, days, current_time) ==
    [k \in 1 .. Len(ps) |->
        [ps[k] EXCEPT !.scheduled_for =
                          Some(FormattedTime(k - 1, days, Len(ps),
                                             current_time)),
                      !.published = FALSE]]

\* variant: the loop also stamps the post with the time of the call
AnnotatedPostsRestamp(ps, days, current_time) ==
    [k \in 1 .. Len(ps) |->
        [ps[k] EXCEPT !.scheduled_for =
                          Some(FormattedTime(k - 1, days, Len(ps),
                                             current_time)),
                      !.generated_at = StrfTime(LocalTime(current_time))]]

\* the posts after the loop of schedule_linkedin_posts has annotated them
AnnotatedPosts(ps, days, current_time) ==
    [k \in 1 .. Len(ps) |->
        [ps[k] EXCEPT !.scheduled_for =
            Some(FormattedTime(k - 1, days, Len(ps), current_time))]]

\* variant: the first post is annotated but not appended to the result
ScheduledPostsSkipFirst(ps) == [k \in 1 .. Len(ps) - 1 |-> ps[k + 1].id]

\* the list a scheduler returns: references to the posts, in loop order
ScheduledPosts(ps) == [k \in 1 .. Len(ps) |-> ps[k].id]

\* the references a caller passes
Ids(ps) == [k \in 1 .. Len(ps) |-> ps[k].id]

\* the calendar day and the hour of each scheduled time of a call
Slots(scheduled) ==
    [k \in 1 .. Len(scheduled) |->
        <<DateOf(scheduled[k]), scheduled[k].hour>>]

\* the record of the last scheduler call: its arguments, the values of
\* its loop variables at each position, what it assigned and its outcome;
\* prev_slots holds the slots of the call before it when that call had the
\* same function, batch length, days and clock reading
NoCall ==
    [fn |-> "none", args |-> <<>>, days |-> 0, at |-> 0, outcome |-> "none",
     ret |-> <<>>, day_offset |-> <<>>, hour |-> <<>>, jitter |-> <<>>,
     scheduled |-> <<>>, prev_slots |-> None]

SameInputs(c, fn, n, days, at) ==
    /\ c.fn = fn
    /\ c.outcome = "returned"
    /\ Len(c.args) = n
    /\ c.days = days
    /\ c.at = at

PrevSlots(c, fn, n, days, at) ==
    IF SameInputs(c, fn, n, days, at) THEN Some(Slots(c.scheduled)) ELSE None

\* generate_linkedin_post returning a post, appended by the caller
GenerateLinkedInPost ==
    /\ prog = "agent_flow"
    /\ Len(posts) < MaxPosts
    /\ posts' = Append(posts, NewLinkedInPost(Len(posts) + 1, now))
    /\ UNCHANGED <<prog, now, start_time, agent_posts, call, pub, api, file,
                   loaded, store, run, retry, auth, poster, glob, dir, check,
                   poll, accepted>>

\* schedule_linkedin_posts(posts, days)
ScheduleLinkedInPosts(days) ==
    LET n == Len(posts)
        fn == "schedule_linkedin_posts"
    IN
    /\ prog = "agent_flow"
    /\ IF posts = <<>>
       THEN \* "No posts to schedule": return []
            /\ call' = [NoCall EXCEPT !.fn = fn, !.days = days, !.at = now,
                                      !.outcome = "returned",
                                      !.prev_slots =
                                          PrevSlots(call, fn, 0, days, now)]
            /\ posts' = posts
       ELSE /\ posts' = AnnotatedPosts(posts, days, now)
            /\ call' = [fn |-> fn,
                        args |-> Ids(posts), days |-> days, at |-> now,
                        outcome |-> "returned",
                        ret |-> ScheduledPosts(posts),
                        day_offset |-> [k \in 1 .. n |->
                                          DayOffset(k - 1, days, n)],
                        hour |-> [k \in 1 .. n |-> TargetHour(k - 1)],
                        jitter |-> [k \in 1 .. n |-> 0],
                        scheduled |-> FormattedTimes(n, days, now),
                        prev_slots |-> PrevSlots(call, fn, n, days, now)]
    /\ UNCHANGED <<prog, now, start_time, agent_posts, pub, api, file,
                   loaded, store, run, retry, auth, poster, glob, dir, check,
                   poll, accepted>>

\* what LinkedIn does in one publish attempt: auth is what
\* LinkedInAuth().authenticate() does and post what post_message does,
\* each returning True, returning False or raising an Exception; post is
\* "none" in the attempts whose authentication does not succeed
Outcomes == {"true", "false", "raises"}
LinkedInEnvs ==
    {e \in [auth : Outcomes, post : Outcomes \cup {"none"}] :
        e.post = "none" <=> e.auth # "true"}

\* variant: the poster is constructed before the answer of authenticate()
\* is looked at
PosterConstructedFirst(env) == env.auth # "raises"

\* LinkedInPoster(...) is constructed
PosterConstructed(env) == env.auth = "true"

\* poster.post_message(post.content) is called
PostMessageCalled(env) == env.auth = "true"

\* variant: True is returned whenever post_message returned at all
PublishResultSent(env) == env.auth = "true" /\ env.post # "raises"

\* the value publish_linkedin_post returns
PublishResult(env) == env.auth = "true" /\ env.post = "true"

\* an exception leaves publish_linkedin_post: the try block spans the
\* body and its handler returns False
PublishRaises(env) == FALSE

\* the post after publish_linkedin_post(post)
PublishedPost(post, env) ==
    IF PublishResult(env) THEN [post EXCEPT !.published = TRUE] ELSE post

\* time.mktime(time.strptime(s, "%Y-%m-%d %H:%M:%S")): the parsed fields
\* carry tm_isdst = -1 and mktime takes the regime in force at that wall
\* clock reading
StrpTime(s) ==
    [tm_year |-> s.year, tm_mon |-> s.mon, tm_mday |-> s.mday,
     tm_hour |-> s.hour, tm_min |-> s.min, tm_sec |-> s.sec,
     tm_isdst |-> -1]

\* variant: the parsed fields are always read as standard time
MkTimeStandard(tm) == WallSeconds(tm)

MkTimeGuess(tm) ==
    LET w == WallSeconds(tm)
    IN  IF tm.tm_isdst >= 0 THEN MkTime(tm)
        ELSE IF IsDst(w - HourSeconds) = 1 THEN w - HourSeconds ELSE w

\* variant: the published flag is not consulted
DueWhateverPublished(post, current_time) ==
    /\ post.scheduled_for # None
    /\ MkTimeGuess(StrpTime(post.scheduled_for[1])) <= current_time

\* the post is one that publish_scheduled_posts hands to
\* publish_linkedin_post at current_time
Due(post, current_time) ==
    /\ ~post.published
    /\ post.scheduled_for # None
    /\ MkTimeGuess(StrpTime(post.scheduled_for[1])) <= current_time

\* the positions of the due posts, in list order
RECURSIVE DuePositions(_, _, _)
DuePositions(ps, k, current_time) ==
    IF k > Len(ps) THEN <<>>
    ELSE (IF Due(ps[k], current_time) THEN <<k>> ELSE <<>>)
             \o DuePositions(ps, k + 1, current_time)

\* the record of the last publish call: the posts it handed to
\* publish_linkedin_post (tried), what LinkedIn did for each of them, and
\* for each of them whether the poster was constructed, post_message was
\* called and what publish_linkedin_post returned; ret is the list
\* publish_scheduled_posts returns
NoPublish ==
    [fn |-> "none", tried |-> <<>>, seen |-> <<>>,
     poster |-> <<>>, sent |-> <<>>, result |-> <<>>, raised |-> FALSE,
     ret |-> <<>>]

\* publish_linkedin_post(posts[k]) while LinkedIn does env
PublishLinkedInPost(k, env) ==
    /\ prog = "agent_flow"
    /\ k \in 1 .. Len(posts)
    /\ posts' = [posts EXCEPT ![k] = PublishedPost(posts[k], env)]
    /\ pub' = [fn |-> "publish_linkedin_post",
               tried |-> <<posts[k].id>>, seen |-> <<env>>,
               poster |-> <<PosterConstructed(env)>>,
               sent |-> <<PostMessageCalled(env)>>,
               result |-> <<PublishResult(env)>>,
               raised |-> PublishRaises(env),
               ret |-> <<>>]
    /\ UNCHANGED <<prog, now, start_time, agent_posts, call, api, file,
                   loaded, store, run, retry, auth, poster, glob, dir, check,
                   poll, accepted>>

\* what LinkedIn does during one call of publish_scheduled_posts: one
\* behaviour for the due posts at odd ranks and one for those at even ranks
EnvDraws(n) ==
    {[r \in 1 .. n |-> IF r % 2 = 1 THEN a ELSE b] :
        a \in LinkedInEnvs, b \in LinkedInEnvs}

\* publish_scheduled_posts(posts) while LinkedIn does envs[r] for the
\* r-th due post
PublishScheduledPosts(envs) ==
    LET due == DuePositions(posts, 1, now)
        n == Len(due)
        rank(k) == CHOOSE r \in 1 .. n : due[r] = k
        ok == SelectSeq([r \in 1 .. n |-> r],
                        LAMBDA r : PublishResult(envs[r]))
    IN
    /\ prog = "agent_flow"
    /\ DOMAIN envs = 1 .. n
    /\ posts' = [k \in 1 .. Len(posts) |->
                    IF k \in Range(due)
                    THEN PublishedPost(posts[k], envs[rank(k)])
                    ELSE posts[k]]
    /\ pub' = [fn |-> "publish_scheduled_posts",
               tried |-> [r \in 1 .. n |-> posts[due[r]].id],
               seen |-> envs,
               poster |-> [r \in 1 .. n |-> PosterConstructed(envs[r])],
               sent |-> [r \in 1 .. n |-> PostMessageCalled(envs[r])],
               result |-> [r \in 1 .. n |-> PublishResult(envs[r])],
               raised |-> \E r \in 1 .. n : PublishRaises(envs[r]),
               ret |-> [j \in 1 .. Len(ok) |-> posts[due[ok[j]]].id]]
    /\ UNCHANGED <<prog, now, start_time, agent_posts, call, api, file,
                   loaded, store, run, retry, auth, poster, glob, dir, check,
                   poll, accepted>>

----------------------------------------------------------------------------
(* agent_flow.py: scheduled_posts.json *)

\* post.dict(), the object json.dump writes for a post: the fields of the
\* model without the identity of the Python object
PostDict(post) ==
    [topic_title |-> post.topic_title, content |-> post.content,
     generated_at |-> post.generated_at,
     scheduled_for |-> post.scheduled_for, published |-> post.published]

\* LinkedInPost(**post_data) for the k-th object of the file: a new
\* Python object, whose identity is written -k
PostFromDict(d, k) ==
    [id |-> -k, topic_title |-> d.topic_title, content |-> d.content,
     generated_at |-> d.generated_at, scheduled_for |-> d.scheduled_for,
     published |-> d.published]

\* the list json.load returns: nothing when the file does not exist
ExistingPosts(f) == IF f = None THEN <<>> ELSE f[1]

\* all_posts = existing_posts + new_posts_data
AllPosts(f, ps) ==
    ExistingPosts(f) \o [k \in 1 .. Len(ps) |-> PostDict(ps[k])]

\* the list load_scheduled_posts returns
LoadedPosts(f) ==
    [k \in 1 .. Len(ExistingPosts(f)) |-> PostFromDict(ExistingPosts(f)[k], k)]

\* the most objects scheduled_posts.json is let to hold
MaxFileRecords == PipelinePosts + 2

\* the record of the last call of save_scheduled_posts or
\* load_scheduled_posts: for a save the posts it was given and whether
\* the file was absent before (fresh); a load that follows a save keeps
\* both
NoStore == [fn |-> "none", fresh |-> FALSE, args |-> <<>>, ret |-> FALSE]

\* save_scheduled_posts(posts), as __main__ calls it for newly generated
\* posts
SaveScheduledPosts ==
    /\ prog = "agent_flow"
    /\ posts # <<>>
    /\ Len(ExistingPosts(file)) + Len(posts) <= MaxFileRecords
    /\ file' = Some(AllPosts(file, posts))
    /\ store' = [fn |-> "save_scheduled_posts", fresh |-> file = None,
                 args |-> posts, ret |-> TRUE]
    /\ UNCHANGED <<prog, now, start_time, posts, agent_posts, call, pub, api,
                   loaded, run, retry, auth, poster, glob, dir, check, poll,
                   accepted>>

\* load_scheduled_posts()
LoadScheduledPosts ==
    /\ prog = "agent_flow"
    /\ loaded' = LoadedPosts(file)
    /\ store' = IF store.fn = "save_scheduled_posts"
                THEN [store EXCEPT !.fn = "load_scheduled_posts"]
                ELSE [NoStore EXCEPT !.fn = "load_scheduled_posts"]
    /\ UNCHANGED <<prog, now, start_time, posts, agent_posts, call, pub, api,
                   file, run, retry, auth, poster, glob, dir, check, poll,
                   accepted>>

\* __main__: the user picks post k, which is not yet published, and
\* confirms; publish_linkedin_post runs while LinkedIn does env, and after
\* a success the list is saved again
PublishInteractively(k, env) ==
    LET after == [posts EXCEPT ![k] = PublishedPost(posts[k], env)]
    IN
    /\ prog = "agent_flow"
    /\ k \in 1 .. Len(posts)
    /\ ~posts[k].published
    /\ Len(ExistingPosts(file)) + Len(posts) <= MaxFileRecords
    /\ posts' = after
    /\ pub' = [fn |-> "publish_linkedin_post",
               tried |-> <<posts[k].id>>, seen |-> <<env>>,
               poster |-> <<PosterConstructed(env)>>,
               sent |-> <<PostMessageCalled(env)>>,
               result |-> <<PublishResult(env)>>,
               raised |-> PublishRaises(env),
               ret |-> <<>>]
    /\ IF PublishResult(env)
       THEN /\ file' = Some(AllPosts(file, after))
            /\ store' = [fn |-> "save_scheduled_posts",
                         fresh |-> file = None, args |-> after,
                         ret |-> TRUE]
       ELSE UNCHANGED <<file, store>>
    /\ UNCHANGED <<prog, now, start_time, agent_posts, call, api, loaded,
                   run, retry, auth, poster, glob, dir, check, poll,
                   accepted>>

----------------------------------------------------------------------------
(* agent_flow.py: the calls of the remote model *)

\* the arguments of @retry_anthropic_api on both decorated functions
max_retries == 2
initial_delay == 2

\* what client.messages.create does in one attempt: it returns a message,
\* raises OverloadedError or raises another Exception
RemoteOutcomes == {"ok", "overloaded", "error"}

\* what the remote model does in the successive attempts of one call
RemoteDraws == [1 .. max_retries + 1 -> RemoteOutcomes]

\* one run of the body of extract_topics_with_anthropic or
\* generate_linkedin_post: the body is a try block whose handler,
\* except Exception, logs and returns None
Body(fn, remote) ==
    IF remote = "ok"
    THEN [kind |-> "returns", value |-> Some(fn), error |-> "none"]
    ELSE [kind |-> "returns", value |-> None, error |-> "none"]

\* wrapper of retry_anthropic_api around Body, from the attempt that
\* follows `retries` overloaded ones: the outcome of the call, the number
\* of runs of the body and the delays slept between them (before the
\* factor random.uniform(0.8, 1.2))
RECURSIVE Wrapper(_, _, _, _)
Wrapper(fn, remotes, retries, delay) ==
    LET r == Body(fn, remotes[retries + 1])
    IN  IF r.kind = "returns"
        THEN [outcome |-> "returned", value |-> r.value, error |-> "none",
              attempts |-> retries + 1, sleeps |-> <<>>]
        ELSE IF r.error # "overloaded" \/ retries + 1 > max_retries
        THEN [outcome |-> "raised", value |-> None, error |-> r.error,
              attempts |-> retries + 1, sleeps |-> <<>>]
        ELSE LET rest == Wrapper(fn, remotes, retries + 1, delay * 2)
             IN  [rest EXCEPT !.sleeps = <<delay>> \o @]

\* the record of the last call of a decorated function: what the remote
\* model did in the attempts made, and what the caller got
NoApiCall ==
    [fn |-> "none", remote |-> <<>>, outcome |-> "none", value |-> None,
     error |-> "none", attempts |-> 0, sleeps |-> <<>>]

ApiCall(fn, remotes) ==
    LET w == Wrapper(fn, remotes, 0, initial_delay)
    IN  [fn |-> fn, remote |-> SubSeq(remotes, 1, w.attempts),
         outcome |-> w.outcome, value |-> w.value, error |-> w.error,
         attempts |-> w.attempts, sleeps |-> w.sleeps]

\* extract_topics_with_anthropic(newsletter_content, num_topics)
ExtractTopicsWithAnthropic(remotes) ==
    /\ prog = "agent_flow"
    /\ api' = ApiCall("extract_topics_with_anthropic", remotes)
    /\ UNCHANGED <<prog, now, start_time, posts, agent_posts, call, pub,
                   file, loaded, store, run, retry, auth, poster, glob, dir,
                   check, poll, accepted>>

\* generate_linkedin_post(topic) called by
\* process_newsletter_to_scheduled_posts, which appends the post when one
\* is returned
RequestLinkedInPost(remotes) ==
    LET c == ApiCall("generate_linkedin_post", remotes)
    IN
    /\ prog = "agent_flow"
    /\ Len(posts) < PipelinePosts
    /\ api' = c
    /\ posts' = IF c.outcome = "returned" /\ c.value # None
                THEN Append(posts, NewLinkedInPost(Len(posts) + 1, now))
                ELSE posts
    /\ UNCHANGED <<prog, now, start_time, agent_posts, call, pub, file,
                   loaded, store, run, retry, auth, poster, glob, dir, check,
                   poll, accepted>>

----------------------------------------------------------------------------
(* linkedin/linkedin_auth.py and linkedin/linkedin_main.py *)

\* what happens during one call of authenticate(): whether the
\* authorization code reaches the local server within the two minutes,
\* what the token endpoint answers (status 200, another status, or
\* requests.post raises), what the userinfo endpoint answers, and whether
\* the profile carries 'sub'
AuthEnvs ==
    [code : {"arrives", "timeout"},
     token : {"200", "other", "raises"},
     profile : {"200", "other", "raises"},
     sub : BOOLEAN]

\* get_access_token(authorization_code): the value of self.access_token
\* afterwards, and the value returned
AccessTokenAfter(a, env) ==
    IF env.token = "200" THEN Some("access_token") ELSE a.access_token

GetAccessToken(env) ==
    IF env.token = "200" THEN Some("access_token") ELSE None

\* get_profile(): the value of self.person_id afterwards;
\* profile_data.get('sub') is None when the key is absent
PersonIdAfter(a, env) ==
    IF env.profile = "200"
    THEN (IF env.sub THEN Some("sub") ELSE None)
    ELSE a.person_id

\* authenticate() raises: requests.post or requests.get raises
AuthenticateRaises(env) ==
    /\ env.code = "arrives"
    /\ \/ env.token = "raises"
       \/ env.token = "200" /\ env.profile = "raises"

\* the value authenticate() returns when it returns
AuthenticateResult(env) ==
    env.code = "arrives" /\ GetAccessToken(env) # None

\* a LinkedInAuth object after __init__
NewAuth ==
    [fn |-> "__init__", access_token |-> None, person_id |-> None,
     env |-> None, ret |-> FALSE, raised |-> FALSE]

\* no LinkedInPoster has posted
NoPoster ==
    [fn |-> "none", access_token |-> None, person_id |-> None,
     status |-> 0, ret |-> FALSE]

\* auth = LinkedInAuth()
LinkedInAuthInit ==
    /\ auth # NewAuth
    /\ auth' = NewAuth
    /\ UNCHANGED <<prog, now, start_time, posts, agent_posts, call, pub, api,
                   file, loaded, store, run, retry, poster, glob, dir, check,
                   poll, accepted>>

\* auth.authenticate() while env happens
Authenticate(env) ==
    /\ auth' =
           IF env.code = "timeout"
           THEN [auth EXCEPT !.fn = "authenticate", !.env = Some(env),
                             !.ret = FALSE, !.raised = FALSE]
           ELSE [fn |-> "authenticate",
                 access_token |-> AccessTokenAfter(auth, env),
                 person_id |-> IF GetAccessToken(env) # None
                               THEN PersonIdAfter(auth, env)
                               ELSE auth.person_id,
                 env |-> Some(env),
                 ret |-> AuthenticateResult(env)
                             /\ ~AuthenticateRaises(env),
                 raised |-> AuthenticateRaises(env)]
    /\ UNCHANGED <<prog, now, start_time, posts, agent_posts, call, pub, api,
                   file, loaded, store, run, retry, poster, glob, dir, check,
                   poll, accepted>>

\* LinkedInPoster(auth.access_token, auth.person_id).post_message(...)
\* after authenticate() returned True, as publish_linkedin_post and
\* post_to_linkedin do; status is the answer of the ugcPosts endpoint
PosterPostMessage(status) ==
    /\ auth.fn = "authenticate"
    /\ auth.ret
    /\ poster' = [fn |-> "post_message",
                  access_token |-> auth.access_token,
                  person_id |-> auth.person_id,
                  status |-> status, ret |-> status = 201]
    /\ UNCHANGED <<prog, now, start_time, posts, agent_posts, call, pub, api,
                   file, loaded, store, run, retry, auth, glob, dir, check,
                   poll, accepted>>

----------------------------------------------------------------------------
(* agent_flow.py: retry_anthropic_api around any function *)

\* the largest max_retries and initial_delay the decorator is given
MaxRetriesArg == 2
MaxDelayArg == 2

\* what one invocation of the wrapped function does: it returns a value,
\* raises OverloadedError or raises another exception
FuncOutcomes == {"returns", "overloaded", "error"}

\* what the wrapped function does in the invocations of one call: the
\* invocations that would follow one that returns or raises another
\* exception never happen and are written as "returns"
FuncDraws(m) ==
    {f \in [1 .. m + 1 -> FuncOutcomes] :
        \A a \in 1 .. m : f[a] # "overloaded" => f[a + 1] = "returns"}

\* random.uniform(0.8, 1.2), in tenths
JitterTenths == {8, 10, 12}

\* variant: the last permitted retry is refused
MaxRetriesExceededEarly(retries, m) == retries >= m

\* if retries > max_retries, read after retries += 1
MaxRetriesExceeded(retries, m) == retries > m

\* wrapper(*args, **kwargs) of retry_anthropic_api(m, d) from the
\* iteration of `while True` that follows `retries` overloaded
\* invocations: func[a] is what the a-th invocation of the wrapped
\* function does, jitter[k] the factor drawn before the k-th retry; the
\* result names the invocation whose value is returned, or the error that
\* leaves the wrapper, the number of invocations and the times slept (in
\* tenths of a second)
RECURSIVE RetryWrapper(_, _, _, _, _)
RetryWrapper(m, func, jitter, retries, delay) ==
    LET r == func[retries + 1]
    IN  IF r = "returns"
        THEN [outcome |-> "returned", value |-> Some(retries + 1),
              error |-> "none", calls |-> retries + 1, sleeps |-> <<>>]
        ELSE IF r # "overloaded"
        THEN [outcome |-> "raised", value |-> None, error |-> r,
              calls |-> retries + 1, sleeps |-> <<>>]
        ELSE IF MaxRetriesExceeded(retries + 1, m)
        THEN [outcome |-> "raised", value |-> None, error |-> "overloaded",
              calls |-> retries + 1, sleeps |-> <<>>]
        ELSE LET rest == RetryWrapper(m, func, jitter, retries + 1,
                                      delay * 2)
             IN  [rest EXCEPT
                      !.sleeps = <<delay * jitter[retries + 1]>> \o @]

\* the record of the last call of a function decorated with
\* retry_anthropic_api(m, d): what its invocations did, the factors
\* drawn, and what the caller got
NoRetry ==
    [fn |-> "none", m |-> 0, d |-> 0, func |-> <<>>, jitter |-> <<>>,
     outcome |-> "none", value |-> None, error |-> "none", calls |-> 0,
     sleeps |-> <<>>]

\* a call of a function decorated with retry_anthropic_api(m, d)
CallDecorated(m, d, func, jitter) ==
    LET w == RetryWrapper(m, func, jitter, 0, d)
    IN
    /\ prog = "agent_flow"
    /\ retry' = [fn |-> "wrapper", m |-> m, d |-> d,
                 func |-> SubSeq(func, 1, w.calls),
                 jitter |-> SubSeq(jitter, 1, Len(w.sleeps)),
                 outcome |-> w.outcome, value |-> w.value,
                 error |-> w.error, calls |-> w.calls,
                 sleeps |-> w.sleeps]
    /\ UNCHANGED <<prog, now, start_time, posts, agent_posts, call, pub, api,
                   file, loaded, store, run, auth, poster, glob, dir, check,
                   poll, accepted>>

----------------------------------------------------------------------------
(* agent_flow.py: process_newsletter_to_scheduled_posts *)

\* what the world does during one run of the pipeline: whether
\* process_latest_email_from_sender finds an email, finds none or raises;
\* what the remote model does when topics are asked for; whether its
\* reply is validated JSON, no JSON, or JSON without the expected keys;
\* how many topics a validated reply holds; and what the remote model
\* does for the topics at odd and at even positions
ReplyKinds == {"valid", "not_json", "invalid"}
NewsletterEnvs ==
    [email : {"found", "none", "raises"}, extract : RemoteOutcomes,
     reply : ReplyKinds, topics : 0 .. PipelinePosts,
     odd : RemoteOutcomes, even : RemoteOutcomes]

\* the number of topics in topics_data, -1 standing for the cases in
\* which process_newsletter returns None or topics_data lacks a key
TopicsData(env) ==
    IF env.email = "found" /\ env.extract = "ok" /\ env.reply = "valid"
    THEN env.topics
    ELSE -1

\* what the remote model does for the topic at position r
Generation(env, r) == IF r % 2 = 1 THEN env.odd ELSE env.even

\* linkedin_posts: a post for each topic generate_linkedin_post returned
\* one for
RECURSIVE LinkedInPosts(_, _, _, _)
LinkedInPosts(env, r, made, t) ==
    IF r > TopicsData(env) THEN made
    ELSE LinkedInPosts(env, r + 1,
             IF Body("generate_linkedin_post", Generation(env, r)).value
                    # None
             THEN Append(made, NewLinkedInPost(Len(made) + 1, t))
             ELSE made,
             t)

\* variant: the scheduler is reached with an empty list too
SchedulerInvokedAlways(env, made) == TopicsData(env) >= 0

\* schedule_linkedin_posts is reached
SchedulerInvoked(env, made) == TopicsData(env) >= 0 /\ made # <<>>

\* an exception leaves process_newsletter_to_scheduled_posts: the try
\* block spans the body and its handler returns []
ProcessRaises(env) == FALSE

\* the record of the last run of the pipeline
NoRun ==
    [fn |-> "none", email |-> "none", topics |-> -1, generated |-> 0,
     scheduler |-> FALSE, publisher |-> FALSE, raised |-> FALSE,
     ret |-> <<>>]

\* the last call of a decorated function the run makes, if it makes one
LastApiCall(env) ==
    LET t == TopicsData(env)
        always(o) == [r \in 1 .. max_retries + 1 |-> o]
    IN  IF env.email # "found" THEN api
        ELSE IF t <= 0
        THEN ApiCall("extract_topics_with_anthropic", always(env.extract))
        ELSE ApiCall("generate_linkedin_post", always(Generation(env, t)))

\* process_newsletter_to_scheduled_posts(sender_email, num_topics, days),
\* whose result __main__ keeps as scheduled_posts
ProcessNewsletterToScheduledPosts(env, days) ==
    LET made == LinkedInPosts(env, 1, <<>>, now)
        n == Len(made)
        fn == "schedule_linkedin_posts"
        invoked == SchedulerInvoked(env, made)
    IN
    /\ prog = "agent_flow"
    /\ posts = <<>>
    /\ api' = LastApiCall(env)
    /\ posts' = IF invoked THEN AnnotatedPosts(made, days, now) ELSE <<>>
    /\ call' = IF ~invoked THEN call
               ELSE IF made = <<>>
               THEN [NoCall EXCEPT !.fn = fn, !.days = days, !.at = now,
                                   !.outcome = "returned",
                                   !.prev_slots =
                                       PrevSlots(call, fn, 0, days, now)]
               ELSE [fn |-> fn, args |-> Ids(made), days |-> days,
                     at |-> now, outcome |-> "returned",
                     ret |-> ScheduledPosts(made),
                     day_offset |-> [k \in 1 .. n |->
                                       DayOffset(k - 1, days, n)],
                     hour |-> [k \in 1 .. n |-> TargetHour(k - 1)],
                     jitter |-> [k \in 1 .. n |-> 0],
                     scheduled |-> FormattedTimes(n, days, now),
                     prev_slots |-> PrevSlots(call, fn, n, days, now)]
    /\ run' = [fn |-> "process_newsletter_to_scheduled_posts",
               email |-> env.email, topics |-> TopicsData(env),
               generated |-> n, scheduler |-> invoked,
               publisher |-> FALSE, raised |-> ProcessRaises(env),
               ret |-> IF invoked THEN ScheduledPosts(made) ELSE <<>>]
    /\ UNCHANGED <<prog, now, start_time, agent_posts, pub, file, loaded,
                   store, retry, auth, poster, glob, dir, check, poll,
                   accepted>>

----------------------------------------------------------------------------
(* agent.py *)

\* a datetime object: wall-clock seconds w shown as calendar fields
DateTime(w, tz) ==
    LET tm == BrokenDown(w)
    IN  [year |-> tm.tm_year, mon |-> tm.tm_mon, mday |-> tm.tm_mday,
         hour |-> tm.tm_hour, min |-> tm.tm_min, sec |-> tm.tm_sec,
         tzinfo |-> tz]

\* wall-clock seconds of a datetime object
DateTimeSeconds(dt) ==
    DaysFromCivil(dt.year, dt.mon, dt.mday) * DaySeconds
        + dt.hour * HourSeconds + dt.min * 60 + dt.sec

\* datetime.now(timezone.utc): local standard time is UTC-5
UtcNow(t) == t + 5 * HourSeconds

\* LinkedInPost(content, topic, scheduled_time = now + 1 day), as
\* generate_linkedin_post builds it
NewAgentPost(id, t) ==
    [id |-> id, content |-> id, topic |-> id,
     scheduled_time |-> DateTime(UtcNow(t) + DaySeconds, "utc")]

posting_times == <<9, 12, 17>>

\* the values random.randint(0, 15) can return
MinuteVariationRange == 0 .. 15

\* random.randint(0, 15) is sampled at the ends of its range
MinuteVariations == {0, 15}

\* the draws of one call over n posts: one value at the odd positions and
\* one at the even positions
JitterDraws(n) ==
    {[k \in 1 .. n |-> IF k % 2 = 1 THEN a ELSE b] :
        a \in MinuteVariations, b \in MinuteVariations}

\* base_date: midnight of the local day after the call
BaseDate(t) == (WallClock(t) \div DaySeconds) * DaySeconds + DaySeconds

\* day_offset of the post at 0-indexed position i (days_to_spread # 0)
AgentDayOffset(i, days) == PyMod(i, days)

\* variant: the posting times are walked from the last to the first
PostHourReversed(i) ==
    posting_times[Len(posting_times) - (i % Len(posting_times))]

\* post_hour of the post at 0-indexed position i
PostHour(i) == posting_times[(i % Len(posting_times)) + 1]

\* variant: the minute variation is passed to timedelta as hours
AgentScheduledTimeHours(i, days, t, minute_variation) ==
    DateTime(BaseDate(t) + AgentDayOffset(i, days) * DaySeconds
                 + PostHour(i) * HourSeconds + minute_variation * HourSeconds,
             "naive")

\* variant: the minute variation is taken off the posting time
AgentScheduledTimeBeforeSlot(i, days, t, minute_variation) ==
    DateTime(BaseDate(t) + AgentDayOffset(i, days) * DaySeconds
                 + PostHour(i) * HourSeconds - minute_variation * 60,
             "naive")

\* post.scheduled_time of the post at position i
AgentScheduledTime(i, days, t, minute_variation) ==
    DateTime(BaseDate(t) + AgentDayOffset(i, days) * DaySeconds
                 + PostHour(i) * HourSeconds + minute_variation * 60,
             "naive")

\* the scheduled_time of every position of a batch of n
AgentScheduledTimes(n, days, t, jitter) ==
    [k \in 1 .. n |-> AgentScheduledTime(k - 1, days, t, jitter[k])]

\* variant: the division by days_to_spread is done before the loop
AgentRaisesEager(ps, days) == days = 0

\* schedule_posts raises when i % days_to_spread divides by zero, which
\* the first post of a batch does
AgentRaises(ps, days) == ps # <<>> /\ days = 0

\* generate_linkedin_post (agent tool) returning a post
AgentGeneratePost ==
    /\ prog = "agent"
    /\ Len(agent_posts) < MaxPosts
    /\ agent_posts' =
           Append(agent_posts, NewAgentPost(Len(agent_posts) + 1, now))
    /\ UNCHANGED <<prog, now, start_time, posts, call, pub, api, file,
                   loaded, store, run, retry, auth, poster, glob, dir, check,
                   poll, accepted>>

\* schedule_posts(ctx, posts) with ctx.deps.days_to_spread = days and the
\* minute variations the random generator draws
SchedulePosts(days, jitter) ==
    LET n == Len(agent_posts)
        fn == "schedule_posts"
    IN
    /\ prog = "agent"
    /\ DOMAIN jitter = 1 .. n
    /\ IF AgentRaises(agent_posts, days)
       THEN \* ZeroDivisionError before any post is touched
            /\ call' = [NoCall EXCEPT !.fn = fn,
                                      !.args = Ids(agent_posts),
                                      !.days = days, !.at = now,
                                      !.outcome = "raised"]
            /\ agent_posts' = agent_posts
       ELSE /\ agent_posts' =
                  [k \in 1 .. n |->
                      [agent_posts[k] EXCEPT !.scheduled_time =
                          AgentScheduledTime(k - 1, days, now, jitter[k])]]
            /\ call' = [fn |-> fn,
                        args |-> Ids(agent_posts), days |-> days, at |-> now,
                        outcome |-> "returned",
                        ret |-> ScheduledPosts(agent_posts),
                        day_offset |-> [k \in 1 .. n |->
                                          AgentDayOffset(k - 1, days)],
                        hour |-> [k \in 1 .. n |-> PostHour(k - 1)],
                        jitter |-> jitter,
                        scheduled |->
                            AgentScheduledTimes(n, days, now, jitter),
                        prev_slots |-> PrevSlots(call, fn, n, days, now)]
    /\ UNCHANGED <<prog, now, start_time, posts, pub, api, file, loaded,
                   store, run, retry, auth, poster, glob, dir, check, poll,
                   accepted>>

----------------------------------------------------------------------------
(* scheduler.py *)

CHECKING_INTERVAL_HOURS == 6

\* days_to_spread of process_newsletter_and_generate_posts
days_to_spread == 3

\* the most posts one agent run is let to return, the most files the
\* directory is let to hold, and how long a scheduler process is
\* followed: until the posts of its first check come due
SchedulerPosts == 2
MaxSchedulerFiles == SchedulerPosts + 1
SchedulerHorizon == 2 * CHECKING_INTERVAL_HOURS * HourSeconds

\* post.scheduled_time.strftime("%Y%m%d_%H%M"): the seconds are dropped
StrfStamp(dt) == <<dt.year, dt.mon, dt.mday, dt.hour, dt.min>>

\* POSTS_DIR / f"{scheduled_time_str}_post_{i+1}.json" for the post at
\* 0-indexed position i
Filename(dt, i) == [stamp |-> StrfStamp(dt), post |-> i + 1]

\* the place of a file name in the lexicographic order of names
NameKey(name) ==
    ((DaysFromCivil(name.stamp[1], name.stamp[2], name.stamp[3]) * 24
          + name.stamp[4]) * 60 + name.stamp[5]) * 10 + name.post

\* post.scheduled_time.isoformat() of a naive datetime, and
\* datetime.fromisoformat of that text
IsoFormat(dt) ==
    [year |-> dt.year, mon |-> dt.mon, mday |-> dt.mday,
     hour |-> dt.hour, min |-> dt.min, sec |-> dt.sec]

FromIsoFormat(text) ==
    [year |-> text.year, mon |-> text.mon, mday |-> text.mday,
     hour |-> text.hour, min |-> text.min, sec |-> text.sec,
     tzinfo |-> "naive"]

\* datetime.now()
DateTimeNow(t) == DateTime(WallClock(t), "naive")

\* variant: the scheduled day has begun
ElapsedDay(scheduled_time, current) ==
    DaysFromCivil(scheduled_time.year, scheduled_time.mon,
                  scheduled_time.mday)
        <= DaysFromCivil(current.year, current.mon, current.mday)

\* scheduled_time <= now, both naive
Elapsed(scheduled_time, current) ==
    DateTimeSeconds(scheduled_time) <= DateTimeSeconds(current)

\* a file of POSTS_DIR: its name, whether the name carries POSTED_MARKER,
\* the post it was written for, whether json.load can read it, and the
\* scheduled_time text it holds
PostFile(name, id, dt) ==
    [name |-> name, posted |-> FALSE, post |-> id, readable |-> TRUE,
     scheduled_time |-> Some(IsoFormat(dt))]

\* the file left when json.dump raised after open(filename, "w")
TornFile(name, id) ==
    [name |-> name, posted |-> FALSE, post |-> id, readable |-> FALSE,
     scheduled_time |-> None]

\* the directory after open(filename, "w") and the write of f
WriteFile(d, f) ==
    {g \in d : ~(g.name = f.name /\ ~g.posted)} \cup {f}

\* the directory after post_file.rename(posted_file)
RenameFile(d, f) ==
    {g \in d : g.name # f.name} \cup {[f EXCEPT !.posted = TRUE]}

\* the files without POSTED_MARKER
Pending(d) == {f \in d : ~f.posted}

\* the order in which POSTS_DIR.glob("*.json") yields the pending files:
\* pathlib leaves it to the file system; order is "ascending" or
\* "descending" by name
RECURSIVE GlobOrder(_, _)
GlobOrder(files, order) ==
    IF files = {} THEN <<>>
    ELSE LET f == CHOOSE g \in files :
                      \A h \in files :
                          IF order = "ascending"
                          THEN NameKey(g.name) <= NameKey(h.name)
                          ELSE NameKey(g.name) >= NameKey(h.name)
         IN  <<f>> \o GlobOrder(files \ {f}, order)

\* what one run of process_newsletter_and_generate_posts gives
\* check_for_new_content: it raises (no email, the agent fails) or returns
\* n posts; untimed is the position of a post without scheduled_time (0:
\* none), torn the position at which json.dump raises (0: none)
CheckEnvs ==
    {e \in [result : {"posts", "raises"}, n : 0 .. SchedulerPosts,
            untimed : 0 .. SchedulerPosts, torn : 0 .. SchedulerPosts] :
        /\ e.untimed <= e.n
        /\ e.torn <= e.n
        /\ e.torn # 0 => e.torn # e.untimed
        /\ e.result = "raises" => (e.n = 0 /\ e.torn = 0)}

\* the posts of the result: position k was made in the run at t
ResultPosts(env, t, jitter) ==
    [k \in 1 .. env.n |->
        [id |-> [at |-> t, k |-> k], content |-> k, topic |-> k,
         scheduled_time |->
             IF k = env.untimed THEN None
             ELSE Some(AgentScheduledTime(k - 1, days_to_spread, t,
                                          jitter[k]))]]

\* the loop of check_for_new_content from position k on: the directory
\* afterwards, the names written, and whether a write raised
RECURSIVE SavePosts(_, _, _, _)
SavePosts(d, ps, k, torn) ==
    IF k > Len(ps)
    THEN [dir |-> d, written |-> <<>>, raised |-> FALSE]
    ELSE IF ps[k].scheduled_time = None
    THEN LET rest == SavePosts(d, ps, k + 1, torn)
         IN  [rest EXCEPT !.written = <<None>> \o @]
    ELSE LET name == Filename(ps[k].scheduled_time[1], k - 1)
         IN  IF k = torn
             THEN [dir |-> WriteFile(d, TornFile(name, ps[k].id)),
                   written |-> <<Some(name)>>
                                   \o [j \in 1 .. Len(ps) - k |-> None],
                   raised |-> TRUE]
             ELSE LET f == PostFile(name, ps[k].id,
                                    ps[k].scheduled_time[1])
                      rest == SavePosts(WriteFile(d, f), ps, k + 1, torn)
                  IN  [rest EXCEPT !.written = <<Some(name)>> \o @]

\* the record of the last check_for_new_content: when it ran, the posts
\* of the result, the name written for each (None: skipped or not
\* reached), and the value returned
NoCheck ==
    [fn |-> "none", at |-> -1, posts |-> <<>>, written |-> <<>>,
     ret |-> FALSE]

\* check_for_new_content(), run at startup and once every
\* CHECKING_INTERVAL_HOURS
CheckForNewContent(env, jitter) ==
    LET ps == ResultPosts(env, now, jitter)
        saved == SavePosts(dir, ps, 1, env.torn)
    IN
    /\ prog = "agent"
    /\ check.at # now
    /\ DOMAIN jitter = 1 .. env.n
    /\ Cardinality(dir) + env.n <= MaxSchedulerFiles
    /\ dir' = saved.dir
    /\ check' = [fn |-> "check_for_new_content", at |-> now,
                 posts |-> ps, written |-> saved.written,
                 ret |-> env.result = "posts" /\ env.n > 0
                             /\ ~saved.raised]
    /\ UNCHANGED <<prog, now, start_time, posts, agent_posts, call, pub,
                   api, file, loaded, store, run, retry, auth, poster, glob,
                   poll, accepted>>

\* what happens to a file that post_scheduled_content submits:
\* post_to_linkedin returns True and the rename succeeds, returns True
\* and the rename raises, returns False, or raises
PollOutcomes == {"posted", "rename_fails", "false", "raises"}

\* the loop of post_scheduled_content over the pending files still to
\* visit: d is the directory and o what happens to the files submitted
RECURSIVE PostFiles(_, _, _, _)
PostFiles(files, d, o, current) ==
    IF files = <<>>
    THEN [dir |-> d, submitted |-> <<>>, outcome |-> <<>>,
          aborted |-> FALSE]
    ELSE LET f == Head(files)
         IN  IF ~f.readable
             THEN [dir |-> d, submitted |-> <<>>, outcome |-> <<>>,
                   aborted |-> TRUE]
             ELSE IF ~Elapsed(FromIsoFormat(f.scheduled_time[1]), current)
             THEN PostFiles(Tail(files), d, o, current)
             ELSE IF o \in {"raises", "rename_fails"}
             THEN [dir |-> d, submitted |-> <<f>>, outcome |-> <<o>>,
                   aborted |-> TRUE]
             ELSE LET rest == PostFiles(Tail(files),
                                        IF o = "posted"
                                        THEN RenameFile(d, f) ELSE d,
                                        o, current)
                  IN  [rest EXCEPT !.submitted = <<f>> \o @,
                                   !.outcome = <<o>> \o @]

\* the record of the last post_scheduled_content: when it ran, the files
\* it handed to post_to_linkedin in order, what happened to each, and
\* whether an exception ended the loop
NoPoll ==
    [fn |-> "none", at |-> -1, submitted |-> <<>>, outcome |-> <<>>,
     aborted |-> FALSE]

\* the posts of a poll that LinkedIn accepted
AcceptedIn(p) ==
    {p.submitted[r].post : r \in {q \in 1 .. Len(p.submitted) :
                                     p.outcome[q] \in {"posted",
                                                       "rename_fails"}}}

\* post_scheduled_content(), run every 5 minutes
PostScheduledContent(o) ==
    \E p \in {PostFiles(GlobOrder(Pending(dir), glob), dir, o,
                         DateTimeNow(now))} :
        /\ prog = "agent"
        /\ dir' = p.dir
        /\ poll' = [fn |-> "post_scheduled_content", at |-> now,
                    submitted |-> p.submitted, outcome |-> p.outcome,
                    aborted |-> p.aborted]
        /\ accepted' = accepted \cup AcceptedIn(p)
        /\ UNCHANGED <<prog, now, start_time, posts, agent_posts, call,
                       pub, api, file, loaded, store, run, retry, auth,
                       poster, glob, check>>

\* main(): the loop sleeps until the next checking time
SchedulerSleep ==
    /\ prog = "agent"
    /\ check.at = now
    /\ now - start_time < SchedulerHorizon
    /\ now' = now + CHECKING_INTERVAL_HOURS * HourSeconds
    /\ UNCHANGED <<prog, start_time, posts, agent_posts, call, pub, api,
                   file, loaded, store, run, retry, auth, poster, glob, dir,
                   check, poll, accepted>>

----------------------------------------------------------------------------
(* The state machine *)

\* the values of the days argument that are tried
DaysArgs == -1 .. MaxDays

\* the clock advances
Tick ==
    /\ now - start_time < Horizon
    /\ now' = now + ClockStep
    /\ UNCHANGED <<prog, start_time, posts, agent_posts, call, pub, api,
                   file, loaded, store, run, retry, auth, poster, glob, dir,
                   check, poll, accepted>>

Init ==
    /\ prog \in {"agent_flow", "agent"}
    /\ now \in StartTimes
    /\ start_time = now
    /\ posts = <<>>
    /\ agent_posts = <<>>
    /\ call = NoCall
    /\ pub = NoPublish
    /\ api = NoApiCall
    /\ file = None
    /\ loaded = <<>>
    /\ store = NoStore
    /\ run = NoRun
    /\ retry = NoRetry
    /\ auth = NewAuth
    /\ poster = NoPoster
    /\ glob = "ascending"
    /\ dir = {}
    /\ check = NoCheck
    /\ poll = NoPoll
    /\ accepted = {}

Next ==
    \/ Tick
    \/ GenerateLinkedInPost
    \/ \E days \in DaysArgs : ScheduleLinkedInPosts(days)
    \/ AgentGeneratePost
    \/ \E days \in DaysArgs :
           \E jitter \in JitterDraws(Len(agent_posts)) :
               SchedulePosts(days, jitter)

Spec == Init /\ [][Next]_vars

\* the days arguments and the start times the pipelines below are
\* followed with: the smallest and the largest spread, and a start on the
\* eve of the day the clocks go forward
PipelineDays == {1, MaxDays}
PipelineStartTimes ==
    {t \in StartTimes : t \div DaySeconds = DaysFromCivil(2025, 3, 8)}

PipelineInit ==
    /\ Init
    /\ prog = "agent_flow"
    /\ now \in PipelineStartTimes

\* agent_flow.py from the remote model calls to the scheduled posts
RemoteNext ==
    \/ Tick
    \/ \E remotes \in RemoteDraws : ExtractTopicsWithAnthropic(remotes)
    \/ \E remotes \in RemoteDraws : RequestLinkedInPost(remotes)
    \/ \E days \in PipelineDays : ScheduleLinkedInPosts(days)
    \/ \E env \in NewsletterEnvs :
           \E days \in PipelineDays :
               ProcessNewsletterToScheduledPosts(env, days)

RemoteSpec == PipelineInit /\ [][RemoteNext]_vars

\* calls of functions decorated with retry_anthropic_api
RetryNext ==
    \E m \in 0 .. MaxRetriesArg :
        \E d \in 1 .. MaxDelayArg :
            \E func \in FuncDraws(m) :
                \E jitter \in [1 .. m -> JitterTenths] :
                    CallDecorated(m, d, func, jitter)

RetrySpec == PipelineInit /\ [][RetryNext]_vars

\* one LinkedInAuth object and the posters built from it
AuthNext ==
    \/ LinkedInAuthInit
    \/ \E env \in AuthEnvs : Authenticate(env)
    \/ \E status \in {201, 401} : PosterPostMessage(status)

AuthSpec == PipelineInit /\ [][AuthNext]_vars

\* scheduler.py started on 2025-12-31 at 21:00
SchedulerStartTimes ==
    {DaysFromCivil(2025, 12, 31) * DaySeconds + 21 * HourSeconds}

\* the scheduler process at startup, on a file system of either order
SchedulerInit ==
    /\ prog = "agent"
    /\ now \in SchedulerStartTimes
    /\ start_time = now
    /\ posts = <<>>
    /\ agent_posts = <<>>
    /\ call = NoCall
    /\ pub = NoPublish
    /\ api = NoApiCall
    /\ file = None
    /\ loaded = <<>>
    /\ store = NoStore
    /\ run = NoRun
    /\ retry = NoRetry
    /\ auth = NewAuth
    /\ poster = NoPoster
    /\ glob \in {"ascending", "descending"}
    /\ dir = {}
    /\ check = NoCheck
    /\ poll = NoPoll
    /\ accepted = {}

SchedulerNext ==
    \/ \E env \in CheckEnvs :
           \E jitter \in JitterDraws(env.n) : CheckForNewContent(env, jitter)
    \/ \E o \in PollOutcomes : PostScheduledContent(o)
    \/ SchedulerSleep

SchedulerSpec == SchedulerInit /\ [][SchedulerNext]_vars

\* the scheduler process with a publisher that succeeds: main() keeps
\* running the pending jobs, so a poll that can change something is
\* taken; every post has a scheduled_time and no minute variation
SchedulerLiveNext ==
    \/ \E env \in {e \in CheckEnvs : e.untimed = 0} :
           CheckForNewContent(env, [k \in 1 .. env.n |-> 0])
    \/ PostScheduledContent("posted")
    \/ SchedulerSleep

SchedulerLiveSpec ==
    /\ SchedulerInit
    /\ [][SchedulerLiveNext]_vars
    /\ WF_vars(PostScheduledContent("posted"))

\* the two polling loops: publish_scheduled_posts over the scheduled
\* posts of agent_flow.py, and the scheduler process
PollingInit == PipelineInit \/ SchedulerInit

PollingNext ==
    \/ prog = "agent_flow" /\ Tick
    \/ Len(posts) < PipelinePosts /\ GenerateLinkedInPost
    \/ \E days \in PipelineDays : ScheduleLinkedInPosts(days)
    \/ \E envs \in EnvDraws(Len(DuePositions(posts, 1, now))) :
           PublishScheduledPosts(envs)
    \/ SchedulerNext

PollingSpec == PollingInit /\ [][PollingNext]_vars

\* agent_flow.py from the generated posts to their publication
PublishNext ==
    \/ Tick
    \/ Len(posts) < PipelinePosts /\ GenerateLinkedInPost
    \/ \E days \in PipelineDays : ScheduleLinkedInPosts(days)
    \/ \E k \in 1 .. Len(posts) :
           \E env \in LinkedInEnvs : PublishLinkedInPost(k, env)
    \/ \E envs \in EnvDraws(Len(DuePositions(posts, 1, now))) :
           PublishScheduledPosts(envs)

PublishSpec == PipelineInit /\ [][PublishNext]_vars

\* agent_flow.py from the generated posts to scheduled_posts.json and
\* back, at one reading of the clock
StoreNext ==
    \/ Len(posts) < PipelinePosts /\ GenerateLinkedInPost
    \/ ScheduleLinkedInPosts(MaxDays)
    \/ SaveScheduledPosts
    \/ LoadScheduledPosts
    \/ \E k \in 1 .. Len(posts) :
           \E env \in LinkedInEnvs : PublishInteractively(k, env)

StoreSpec == PipelineInit /\ [][StoreNext]_vars

----------------------------------------------------------------------------
(* Properties of the schedulers *)

FlowReturned ==
    call.fn = "schedule_linkedin_posts" /\ call.outcome = "returned"

AgentReturned == call.fn = "schedule_posts" /\ call.outcome = "returned"

\* the batch length of the last call
BatchLen == Len(call.args)

\* floor(i * d / n) clamped to [0, d - 1], for i >= 0, d >= 1, n >= 1
ClampedFloor(i, d, n) ==
    LET q == (i * d) \div n
    IN  IF q > d - 1 THEN d - 1 ELSE IF q < 0 THEN 0 ELSE q

\* C1: in a call of schedule_linkedin_posts on n >= 1 posts with days >= 1
\* the post at 0-indexed position i gets day offset floor(i * days / n)
\* clamped to [0, days - 1], and the day offsets never decrease with i.
C1_DayOffsetFormula ==
    (FlowReturned /\ BatchLen >= 1 /\ call.days >= 1) =>
        /\ Len(call.day_offset) = BatchLen
        /\ \A k \in 1 .. BatchLen :
               call.day_offset[k] = ClampedFloor(k - 1, call.days, BatchLen)
        /\ \A k \in 1 .. BatchLen - 1 :
               call.day_offset[k] <= call.day_offset[k + 1]

C1_Witness ==
    /\ FlowReturned
    /\ BatchLen = 5
    /\ call.days = 3
    /\ call.day_offset = <<0, 0, 1, 1, 2>>

\* C2: every scheduled time a scheduler assigns (days >= 1) is at or after
\* the local time at which the scheduler was called.
C2_FutureOnly ==
    (call.outcome = "returned" /\ call.days >= 1) =>
        \A k \in 1 .. Len(call.scheduled) :
            DateTimeSeconds(call.scheduled[k]) >= WallClock(call.at)

\* C3: no scheduled time a scheduler assigns (days >= 1) lies on the local
\* calendar day of the call; the earliest lies on the day after it.
C3_NeverSameDay ==
    (call.outcome = "returned" /\ call.days >= 1) =>
        \A k \in 1 .. Len(call.scheduled) :
            DateOf(call.scheduled[k]) > WallClock(call.at) \div DaySeconds

\* C4: a scheduler called on a non-empty batch with days < 1 fails with an
\* error and assigns nothing.
C4_InvalidDaysFail ==
    (call.fn # "none" /\ BatchLen >= 1 /\ call.days < 1) =>
        /\ call.outcome = "raised"
        /\ call.scheduled = <<>>

\* C5: every scheduled_for that schedule_linkedin_posts assigns (days >= 1)
\* has an hour of the slot set 9, 12, 15, 17 and minute and second 0.
C5_HourInSlotSet ==
    (FlowReturned /\ call.days >= 1) =>
        \A k \in 1 .. Len(call.scheduled) :
            /\ call.scheduled[k].hour \in Range(business_hours)
            /\ call.scheduled[k].hour >= 9
            /\ call.scheduled[k].hour <= 17
            /\ call.scheduled[k].min = 0
            /\ call.scheduled[k].sec = 0

\* C6: when schedule_linkedin_posts gets n posts and days = d with
\* n >= d >= 1, every day offset of 0 .. d - 1 is given to some post; 5
\* posts over 3 days get scheduled times on at least 2 days of the month.
C6_EveryDayUsed ==
    (FlowReturned /\ call.days >= 1 /\ BatchLen >= call.days) =>
        /\ \A off \in 0 .. call.days - 1 :
               \E k \in 1 .. BatchLen : call.day_offset[k] = off
        /\ (BatchLen = 5 /\ call.days = 3) =>
               Cardinality({call.scheduled[k].mday : k \in 1 .. BatchLen}) >= 2

C6_Witness ==
    /\ FlowReturned
    /\ BatchLen = 4
    /\ call.days = 3
    /\ Range(call.day_offset) = {0, 1, 2}

\* C7: the list a scheduler returns holds the posts it was given, each at
\* its position, none dropped or repeated, and each post of the list that
\* schedule_linkedin_posts returns has scheduled_for set.
C7_OrderPreserved ==
    (call.outcome = "returned") =>
        /\ Len(call.ret) = BatchLen
        /\ \A k \in 1 .. BatchLen : call.ret[k] = call.args[k]
        /\ FlowReturned =>
               \A k \in 1 .. BatchLen :
                   /\ posts[k].id = call.ret[k]
                   /\ posts[k].scheduled_for # None

C7_Witness ==
    /\ FlowReturned
    /\ BatchLen = 5
    /\ call.ret = <<1, 2, 3, 4, 5>>
    /\ \A k \in 1 .. 5 : posts[k].scheduled_for # None

\* C8: a scheduler called on an empty batch returns an empty list and
\* raises nothing, whatever the days argument is.
C8_EmptyBatch ==
    (call.fn # "none" /\ call.args = <<>>) =>
        /\ call.outcome = "returned"
        /\ call.ret = <<>>

C8_Witness ==
    /\ call.fn = "schedule_posts"
    /\ call.args = <<>>
    /\ call.days = 0
    /\ call.outcome = "returned"

\* the slot hours of schedule_linkedin_posts times the days: its capacity
Capacity(days) == Len(business_hours) * days

\* C9: schedule_linkedin_posts called with days >= 1 on a batch larger
\* than its capacity returns, schedules every post and gives two posts
\* the same scheduled time.
C9_OverCapacity ==
    (call.fn = "schedule_linkedin_posts" /\ call.days >= 1
        /\ BatchLen > Capacity(call.days)) =>
        /\ call.outcome = "returned"
        /\ Len(call.scheduled) = BatchLen
        /\ \E i, j \in 1 .. BatchLen :
               i < j /\ call.scheduled[i] = call.scheduled[j]

C9_Witness ==
    /\ FlowReturned
    /\ call.days = 1
    /\ BatchLen = 5
    /\ call.scheduled[1] = call.scheduled[5]

\* C10: a scheduler call that follows a call with the same batch length,
\* days and clock reading gives every position the calendar day and the
\* hour the earlier call gave it, whatever minute variations are drawn.
C10_Deterministic ==
    (call.outcome = "returned" /\ call.prev_slots # None) =>
        call.prev_slots = Some(Slots(call.scheduled))

C10_Witness ==
    /\ AgentReturned
    /\ call.prev_slots # None
    /\ BatchLen = 3
    /\ call.jitter = <<15, 0, 15>>
    /\ call.prev_slots = Some(Slots(call.scheduled))

FirstSlotHour ==
    IF call.fn = "schedule_posts" THEN posting_times[1] ELSE business_hours[1]

C13_OneDayDistinctHours ==
    (FlowReturned /\ call.days = 1 /\ BatchLen >= 1
        /\ BatchLen <= Len(business_hours)) =>
        /\ \A k \in 1 .. BatchLen : call.day_offset[k] = 0
        /\ \A i, j \in 1 .. BatchLen :
               i # j =>
                   /\ call.hour[i] # call.hour[j]
                   /\ call.scheduled[i].hour # call.scheduled[j].hour
                   /\ DateOf(call.scheduled[i]) = DateOf(call.scheduled[j])

C13_Witness ==
    /\ FlowReturned
    /\ call.days = 1
    /\ BatchLen = 4
    /\ call.day_offset = <<0, 0, 0, 0>>
    /\ call.hour = <<9, 12, 15, 17>>

\* C14: for every post of a schedule_posts call and every minute variation
\* of 0 .. 15, the scheduled_time has the calendar day and the hour it has
\* with variation 0, which are the post's day and post hour; only the
\* minute differs, being the variation itself, and the time the call
\* stored is the one of the variation it drew.
C14_JitterCosmetic ==
    AgentReturned =>
        \A k \in 1 .. BatchLen :
            LET plain == AgentScheduledTime(k - 1, call.days, call.at, 0)
            IN  /\ plain.hour = call.hour[k]
                /\ plain.min = 0
                /\ \A j \in MinuteVariationRange :
                       LET t == AgentScheduledTime(k - 1, call.days,
                                                   call.at, j)
                       IN  /\ DateOf(t) = DateOf(plain)
                           /\ t.hour = plain.hour
                           /\ t.min = j
                           /\ t.sec = plain.sec
                /\ call.jitter[k] \in MinuteVariationRange
                /\ call.scheduled[k] =
                       AgentScheduledTime(k - 1, call.days, call.at,
                                          call.jitter[k])

C14_Witness ==
    /\ AgentReturned
    /\ BatchLen = 2
    /\ call.jitter = <<15, 0>>
    /\ call.scheduled[1].min = 15
    /\ call.scheduled[1].hour = 9
    /\ call.scheduled[2].min = 0

----------------------------------------------------------------------------
(* Properties of the publication pipeline of agent_flow.py *)

\* the step is a call of schedule_linkedin_posts, with the days argument
\* that the record of the call shows
ScheduleStep ==
    /\ call'.fn = "schedule_linkedin_posts"
    /\ pub' = pub
    /\ now' = now
    /\ ScheduleLinkedInPosts(call'.days)

\* the moment a scheduled_for text names, as publish_scheduled_posts
\* reads it
ScheduledFor(post) == MkTimeGuess(StrpTime(post.scheduled_for[1]))

\* C15: a call of schedule_linkedin_posts keeps the list of posts as long
\* as it was and leaves the identity, topic_title, content, generated_at
\* and published of every post as they were: it changes scheduled_for
\* only.
C15_OnlyAnnotates ==
    [][ScheduleStep =>
           /\ Len(posts') = Len(posts)
           /\ \A k \in 1 .. Len(posts) :
                  /\ posts'[k].id = posts[k].id
                  /\ posts'[k].topic_title = posts[k].topic_title
                  /\ posts'[k].content = posts[k].content
                  /\ posts'[k].generated_at = posts[k].generated_at
                  /\ posts'[k].published = posts[k].published
                  /\ DOMAIN posts'[k] = DOMAIN posts[k]]_vars

\* a published post that was scheduled again after its publication: it
\* was due when publish_scheduled_posts took it and is not due now
C15_Witness ==
    /\ FlowReturned
    /\ BatchLen = 2
    /\ pub.fn = "publish_scheduled_posts"
    /\ pub.ret = <<1, 2>>
    /\ posts[2].published
    /\ posts[2].topic_title = 2
    /\ posts[2].scheduled_for # None
    /\ ScheduledFor(posts[2]) > now

\* the last publish call handed the post to publish_linkedin_post, which
\* returned True for it
PublishedBy(p, id) ==
    \E r \in 1 .. Len(p.tried) : p.tried[r] = id /\ p.result[r]

\* C16: in every step of the pipeline (generation, schedule_linkedin_posts,
\* publish_linkedin_post, publish_scheduled_posts, the clock) no post is
\* dropped, a post that appears has published false, a published post
\* stays published, and a post becomes published only in a publish call
\* that got True from publish_linkedin_post for it and that leaves the
\* scheduler's record and the post's scheduled_for alone.
C16_PublishedLifecycle ==
    [][/\ Len(posts') >= Len(posts)
       /\ \A k \in Len(posts) + 1 .. Len(posts') : ~posts'[k].published
       /\ \A k \in 1 .. Len(posts) :
              /\ posts'[k].id = posts[k].id
              /\ posts[k].published => posts'[k].published
              /\ (~posts[k].published /\ posts'[k].published) =>
                     /\ pub'.fn \in {"publish_linkedin_post",
                                      "publish_scheduled_posts"}
                     /\ PublishedBy(pub', posts[k].id)
                     /\ call' = call
                     /\ posts'[k].scheduled_for = posts[k].scheduled_for]_vars

\* publish_scheduled_posts published the first of two due posts and not
\* the second; the first was then scheduled again and is still published
C16_Witness ==
    /\ pub.fn = "publish_scheduled_posts"
    /\ pub.tried = <<1, 2>>
    /\ pub.result = <<TRUE, FALSE>>
    /\ posts[1].published
    /\ ~posts[2].published
    /\ FlowReturned
    /\ ScheduledFor(posts[1]) > now

\* the step is a call of publish_linkedin_post or publish_scheduled_posts
PublishStep ==
    /\ pub'.fn \in {"publish_linkedin_post", "publish_scheduled_posts"}
    /\ call' = call
    /\ now' = now
    /\ Len(posts') = Len(posts)

\* C17: whenever publish_linkedin_post runs, alone or inside
\* publish_scheduled_posts, and authenticate() returns False or raises,
\* the call returns False and raises nothing, the poster is not constructed,
\* post_message is not called, and the post is left as it was, so an
\* unpublished post stays unpublished.
C17_AuthFailureShortCircuits ==
    [][PublishStep =>
           \A r \in 1 .. Len(pub'.tried) :
               pub'.seen[r].auth # "true" =>
                   /\ ~pub'.result[r]
                   /\ ~pub'.poster[r]
                   /\ ~pub'.sent[r]
                   /\ ~pub'.raised
                   /\ \A k \in 1 .. Len(posts) :
                          posts[k].id = pub'.tried[r] =>
                              posts'[k] = posts[k]]_vars

C17_Witness ==
    /\ pub.fn = "publish_linkedin_post"
    /\ pub.tried = <<1>>
    /\ pub.seen = <<[auth |-> "false", post |-> "none"]>>
    /\ pub.result = <<FALSE>>
    /\ pub.poster = <<FALSE>>
    /\ ~posts[1].published

\* C18: whenever publish_linkedin_post runs, alone or inside
\* publish_scheduled_posts, it raises nothing; it returns True exactly
\* when authenticate() and post_message both returned a true result, and
\* then the post is published and otherwise unchanged; when it returns
\* False (post_message returned False, or a step raised) the post is left
\* as it was.
C18_PublishResult ==
    [][PublishStep =>
           /\ ~pub'.raised
           /\ \A r \in 1 .. Len(pub'.tried) :
                  /\ pub'.result[r] <=>
                         (pub'.seen[r].auth = "true"
                             /\ pub'.seen[r].post = "true")
                  /\ \A k \in 1 .. Len(posts) :
                         posts[k].id = pub'.tried[r] =>
                             posts'[k] =
                                 IF pub'.result[r]
                                 THEN [posts[k] EXCEPT !.published = TRUE]
                                 ELSE posts[k]]_vars

\* one call in which a post was published and another was not because
\* post_message raised
C18_Witness ==
    /\ pub.fn = "publish_scheduled_posts"
    /\ pub.seen = <<[auth |-> "true", post |-> "true"],
                    [auth |-> "true", post |-> "raises"]>>
    /\ pub.result = <<TRUE, FALSE>>
    /\ pub.ret = <<pub.tried[1]>>
    /\ posts[1].published
    /\ ~posts[2].published

----------------------------------------------------------------------------
(* Properties of the remote model calls *)

\* every attempt the last call made met an overloaded remote model
AllOverloaded ==
    \A a \in 1 .. Len(api.remote) : api.remote[a] = "overloaded"

\* C19: when the remote model is overloaded in the first attempt of a call
\* of extract_topics_with_anthropic or generate_linkedin_post, the call
\* is attempted again, at most max_retries + 1 times in all with the delay
\* doubling from initial_delay, and when every attempt was overloaded the
\* caller gets the overload error and no return value.
C19_OverloadRetried ==
    (api.fn # "none" /\ api.remote[1] = "overloaded") =>
        /\ api.attempts >= 2
        /\ api.attempts <= max_retries + 1
        /\ \A a \in 1 .. Len(api.sleeps) :
               api.sleeps[a] = initial_delay * 2 ^ (a - 1)
        /\ AllOverloaded =>
               /\ api.attempts = max_retries + 1
               /\ api.outcome = "raised"
               /\ api.error = "overloaded"

----------------------------------------------------------------------------
(* Properties of the calendar arithmetic of schedule_linkedin_posts *)

\* C20: every scheduled_for that schedule_linkedin_posts assigns
\* (days >= 1) names the local calendar day that lies day_offset days
\* after the local day of the call, at the target hour of the position,
\* also when a month or a year ends or the clocks change in between.
C20_CalendarDate ==
    (FlowReturned /\ call.days >= 1) =>
        \A k \in 1 .. Len(call.scheduled) :
            /\ DateOf(call.scheduled[k]) =
                   WallClock(call.at) \div DaySeconds + call.day_offset[k]
            /\ call.scheduled[k].hour = call.hour[k]

----------------------------------------------------------------------------
(* Properties of scheduled_posts.json *)

\* the last call was a load that followed a save to a file that did not
\* exist before
LoadedAfterFreshSave == store.fn = "load_scheduled_posts" /\ store.fresh

\* C21: when load_scheduled_posts follows a save_scheduled_posts to a
\* file that did not exist, it returns one post for each post saved, in
\* order, with the scheduled_for text the saved post had; and a loaded
\* text that schedule_linkedin_posts wrote in its last call is parsed by
\* publish_scheduled_posts to the timestamp that call computed.
C21_RoundTrip ==
    LoadedAfterFreshSave =>
        /\ Len(loaded) = Len(store.args)
        /\ \A k \in 1 .. Len(loaded) :
               /\ loaded[k].scheduled_for = store.args[k].scheduled_for
               /\ loaded[k].topic_title = store.args[k].topic_title
               /\ (FlowReturned /\ loaded[k].scheduled_for # None) =>
                      \A j \in 1 .. BatchLen :
                          loaded[k].scheduled_for = Some(call.scheduled[j])
                              => ScheduledFor(loaded[k]) =
                                     ScheduledTime(j - 1, call.days, BatchLen,
                                                   call.at)

\* two scheduled posts came back from the file, the second with a time
\* on the day the clocks went forward
C21_Witness ==
    /\ LoadedAfterFreshSave
    /\ FlowReturned
    /\ BatchLen = 2
    /\ Len(loaded) = 2
    /\ loaded[2].scheduled_for = Some(call.scheduled[2])
    /\ DateOf(call.scheduled[2]) = DaysFromCivil(2025, 3, 9)

----------------------------------------------------------------------------
(* Properties of process_newsletter_to_scheduled_posts *)

\* C22: a run of process_newsletter_to_scheduled_posts raises nothing and
\* never reaches the publisher; when no email is found (or fetching it
\* raises), when no topics data is obtained, or when no post is generated,
\* it returns the empty list and does not reach the scheduler; the
\* scheduler is reached only with at least one post, and the run
\* returns what the scheduler returned.
C22_NothingToProcess ==
    [][run' # run =>
           /\ run'.fn = "process_newsletter_to_scheduled_posts"
           /\ ~run'.raised
           /\ ~run'.publisher
           /\ pub' = pub
           /\ (run'.email # "found" \/ run'.topics < 0
                   \/ run'.generated = 0) =>
                  /\ run'.ret = <<>>
                  /\ ~run'.scheduler
                  /\ call' = call
                  /\ posts' = <<>>
           /\ run'.scheduler =>
                  /\ run'.generated >= 1
                  /\ call'.fn = "schedule_linkedin_posts"
                  /\ call'.ret = run'.ret
                  /\ Len(run'.ret) = run'.generated]_vars

\* an email was found and two topics extracted, but the remote model
\* gave no post for either
C22_Witness ==
    /\ run.fn = "process_newsletter_to_scheduled_posts"
    /\ run.email = "found"
    /\ run.topics = 2
    /\ run.generated = 0
    /\ run.ret = <<>>
    /\ api.fn = "generate_linkedin_post"
    /\ api.value = None
    /\ call = NoCall
    /\ posts = <<>>

----------------------------------------------------------------------------
(* Properties of publish_scheduled_posts *)

\* the identifiers of the posts of ps that satisfy test, in list order
IdsWhere(ps, test(_)) ==
    LET ks == SelectSeq([k \in 1 .. Len(ps) |-> k], test)
    IN  [j \in 1 .. Len(ks) |-> ps[ks[j]].id]

\* C24: a call of publish_scheduled_posts hands to publish_linkedin_post
\* no post that was already published when the call began, so a post
\* published by an earlier call is never submitted again; the posts it
\* submits are taken in list order, and the list it returns holds exactly
\* the posts the call published, in list order.
C24_PublishedOnce ==
    [][(PublishStep /\ pub'.fn = "publish_scheduled_posts") =>
           /\ \A r \in 1 .. Len(pub'.tried) :
                  \A k \in 1 .. Len(posts) :
                      posts[k].id = pub'.tried[r] => ~posts[k].published
           /\ pub'.tried =
                  IdsWhere(posts, LAMBDA k : posts[k].id \in Range(pub'.tried))
           /\ pub'.ret =
                  IdsWhere(posts, LAMBDA k : ~posts[k].published
                                               /\ posts'[k].published)
           /\ \A k \in 1 .. Len(posts) :
                  posts[k].published => posts'[k] = posts[k]]_vars

\* the first post was published before; a later call submits and
\* publishes the second one only
C24_Witness ==
    /\ pub.fn = "publish_scheduled_posts"
    /\ Len(posts) = 2
    /\ posts[1].published
    /\ posts[1].scheduled_for # None
    /\ pub.tried = <<posts[2].id>>
    /\ pub.result = <<TRUE>>
    /\ pub.ret = <<posts[2].id>>
    /\ posts[2].published

----------------------------------------------------------------------------
(* Properties of the interactive publication *)

\* the file was loaded after __main__ published a post and saved the list
LoadedAfterInteractivePublish ==
    /\ store.fn = "load_scheduled_posts"
    /\ store.args = posts
    /\ pub.fn = "publish_linkedin_post"
    /\ pub.result = <<TRUE>>
    /\ \E k \in 1 .. Len(posts) :
           posts[k].id = pub.tried[1] /\ posts[k].published

\* C27: when scheduled_posts.json is loaded after __main__ published a post
\* and saved the list, the loaded list holds exactly one record per post of
\* the list, the record of the published post has published true, and no
\* record of it has published false.
C27_OneRecordPerPost ==
    LoadedAfterInteractivePublish =>
        /\ Len(loaded) = Len(posts)
        /\ \A k \in 1 .. Len(posts) :
               PostDict(loaded[k]) = PostDict(posts[k])
        /\ \A j \in 1 .. Len(loaded) :
               \A k \in 1 .. Len(posts) :
                   (posts[k].id = pub.tried[1]
                       /\ loaded[j].topic_title = posts[k].topic_title)
                       => loaded[j].published

----------------------------------------------------------------------------
(* Properties of retry_anthropic_api *)

\* C28: a call of a function decorated with retry_anthropic_api(m, d)
\* invokes the function at least once and at most m + 1 times, and again
\* only after an overloaded invocation; a value returned by an invocation
\* is returned at once; an exception other than the overload error
\* leaves the wrapper at once; the overload error leaves it exactly when
\* the (m + 1)-th invocation was overloaded; before the k-th retry the
\* wrapper sleeps d * 2^(k-1) seconds times a factor between 0.8 and 1.2;
\* every call ends with a return or an exception.
C28_BoundedRetries ==
    retry.fn # "none" =>
        /\ retry.calls \in 1 .. retry.m + 1
        /\ Len(retry.func) = retry.calls
        /\ \A a \in 1 .. retry.calls - 1 : retry.func[a] = "overloaded"
        /\ retry.outcome \in {"returned", "raised"}
        /\ retry.func[retry.calls] = "returns" =>
               /\ retry.outcome = "returned"
               /\ retry.value = Some(retry.calls)
        /\ retry.func[retry.calls] = "error" =>
               /\ retry.outcome = "raised"
               /\ retry.error = "error"
        /\ retry.func[retry.calls] = "overloaded" =>
               /\ retry.calls = retry.m + 1
               /\ retry.outcome = "raised"
               /\ retry.error = "overloaded"
        /\ Len(retry.sleeps) = retry.calls - 1
        /\ \A k \in 1 .. Len(retry.sleeps) :
               /\ retry.jitter[k] \in 8 .. 12
               /\ retry.sleeps[k] =
                      retry.d * 2 ^ (k - 1) * retry.jitter[k]

\* max_retries = 2, initial_delay = 2: two overloaded invocations, sleeps
\* of 2 * 0.8 s and 4 * 1.2 s, and the third invocation returns
C28_Witness ==
    /\ retry.m = 2
    /\ retry.d = 2
    /\ retry.func = <<"overloaded", "overloaded", "returns">>
    /\ retry.sleeps = <<16, 48>>
    /\ retry.outcome = "returned"
    /\ retry.value = Some(3)

----------------------------------------------------------------------------
(* Properties of LinkedInAuth *)

\* C29: when authenticate() returned True, access_token and person_id are
\* both set, and a poster built from them posts with a defined author;
\* when no authorization code arrived in time or the token endpoint did
\* not answer 200, authenticate() did not return True.
C29_AuthenticatedIdentity ==
    /\ (auth.fn = "authenticate" /\ auth.ret) =>
           /\ auth.access_token # None
           /\ auth.person_id # None
    /\ poster.fn = "post_message" => poster.person_id # None
    /\ (auth.fn = "authenticate"
           /\ (auth.env[1].code = "timeout" \/ auth.env[1].token # "200"))
           => ~auth.ret

----------------------------------------------------------------------------
(* Properties of the polling loops *)

\* a step that is a call of publish_scheduled_posts
FlowPollStep == PublishStep /\ pub'.fn = "publish_scheduled_posts"

\* a step that is a call of post_scheduled_content
SchedulerPollStep ==
    /\ prog = "agent"
    /\ poll'.fn = "post_scheduled_content"
    /\ check' = check
    /\ now' = now

\* the wall-clock reading a scheduled_time text of a post file names
FileTime(f) == DateTimeSeconds(FromIsoFormat(f.scheduled_time[1]))

\* C23: a call of publish_scheduled_posts hands to publish_linkedin_post
\* only posts that have a scheduled_for whose wall-clock reading is not
\* after the local time of the call; a call of post_scheduled_content
\* hands to post_to_linkedin only pending files whose scheduled_time is not
\* after the local time of the call; and the directory holds no readable
\* file without a scheduled_time, a post without one being given no file.
C23_NotBeforeScheduledTime ==
    [][/\ FlowPollStep =>
              \A r \in 1 .. Len(pub'.tried) :
                  \A k \in 1 .. Len(posts) :
                      posts[k].id = pub'.tried[r] =>
                          /\ posts[k].scheduled_for # None
                          /\ WallSeconds(StrpTime(posts[k].scheduled_for[1]))
                                 <= WallClock(now)
       /\ SchedulerPollStep =>
              \A r \in 1 .. Len(poll'.submitted) :
                  /\ poll'.submitted[r] \in Pending(dir)
                  /\ poll'.submitted[r].scheduled_time # None
                  /\ FileTime(poll'.submitted[r]) <= WallClock(now)
       /\ \A f \in dir' : f.readable => f.scheduled_time # None
       /\ \A k \in 1 .. Len(check'.posts) :
              check'.posts[k].scheduled_time = None =>
                  /\ check'.written[k] = None
                  /\ \A f \in dir' : f.post # check'.posts[k].id]_vars

\* a poll at 09:00 submitted the file scheduled for 09:00 and left a
\* readable pending file whose time had not come
C23_Witness ==
    /\ poll.fn = "post_scheduled_content"
    /\ poll.at = now
    /\ Len(poll.submitted) = 1
    /\ FileTime(poll.submitted[1]) = WallClock(now)
    /\ \E f \in Pending(dir) :
           /\ f.readable
           /\ f.post # poll.submitted[1].post
           /\ FileTime(f) > WallClock(now)

----------------------------------------------------------------------------
(* Properties of the scheduler process *)

\* C25: a call of post_scheduled_content hands to post_to_linkedin no post
\* that LinkedIn accepted in an earlier call, and after every call each
\* post LinkedIn has accepted has no pending file left: its file carries
\* POSTED_MARKER, also when the rename raised.
C25_PostedOnce ==
    [][SchedulerPollStep =>
           /\ \A r \in 1 .. Len(poll'.submitted) :
                  poll'.submitted[r].post \notin accepted
           /\ \A f \in Pending(dir') : f.post \notin accepted']_vars


\* the readings of the clock at which the scheduler checks and polls
SchedulerTimes ==
    {t + j * CHECKING_INTERVAL_HOURS * HourSeconds :
        t \in SchedulerStartTimes,
        j \in 0 .. SchedulerHorizon
                       \div (CHECKING_INTERVAL_HOURS * HourSeconds)}

\* the posts the agent runs can return
PostIds == [at : SchedulerTimes, k : 1 .. SchedulerPosts]

\* the post has a readable pending file whose time has come
DuePending(id) ==
    \E f \in Pending(dir) :
        /\ f.post = id
        /\ f.readable
        /\ FileTime(f) <= WallClock(now)

\* the file of the post carries POSTED_MARKER
MarkedPosted(id) == \E f \in dir : f.posted /\ f.post = id

\* C26: while the scheduler keeps polling and the publisher succeeds, a
\* post that has a readable pending file whose time has come is
\* eventually published and its file marked with POSTED_MARKER, whatever
\* other files the directory holds.
C26_DueFilesPosted ==
    \A id \in PostIds : DuePending(id) ~> MarkedPosted(id)


\* a step that is a call of check_for_new_content
CheckStep == prog = "agent" /\ check' # check

\* C30: when check_for_new_content returns True, every post of the result
\* that has a scheduled_time has a readable pending file of its own under
\* the name written for it, the names written in the run are distinct,
\* and every file that was pending before the run is still there with
\* the post it held.
C30_NoPendingPostLost ==
    [][(CheckStep /\ check'.ret) =>
           /\ \A k \in 1 .. Len(check'.posts) :
                  check'.posts[k].scheduled_time # None =>
                      \E f \in Pending(dir') :
                          /\ f.post = check'.posts[k].id
                          /\ f.readable
                          /\ check'.written[k] = Some(f.name)
           /\ \A j, k \in 1 .. Len(check'.written) :
                  (j # k /\ check'.written[j] # None)
                      => check'.written[j] # check'.written[k]
           /\ \A f \in Pending(dir) : f \in dir']_vars

====
